---- MODULE Spec2Model ----
(***************************************************************************)
(* A model of pytypos.Pytypos (src/pytypos/_pytypos.py): one scanning      *)
(* session over a target that is either one file or a directory of two     *)
(* files.  File contents are sequences of one-character strings, words are *)
(* sequences of letters, the ledger is typo_details / typo_list.           *)
(***************************************************************************)
EXTENDS Integers, Sequences, FiniteSets, TLC

\* ------------------------------------------------------------------ bounds
\* Longest file content the environment writes (characters).
MaxLen == 6

\* ------------------------------------------------------------- characters
Space == " "
NL == "\n"
\* A byte that is not valid UTF-8: reading a file that holds it raises.
BadByte == "0xFF"

\* str.isalpha() on one character.
Letters == {"k", "s", "t", "T"}

\* str.split() separators.
Whitespace == {" ", "\t", "\n", "\r"}

\* _match_from_file: strip_chars.
strip_chars == {".", ",", ";", "?", "(", ")", "&", "\"", "'", "{", "}", "@", "[", "]", "#"}

\* str.casefold on one character.
casefold_char(c) == IF c = "T" THEN "t" ELSE c

\* Code point of a letter (the order Python compares strings by).
ord(c) == CASE c = "T" -> 84 [] c = "k" -> 107 [] c = "s" -> 115 [] c = "t" -> 116 [] OTHER -> 0

\* ------------------------------------------------------------------ words
Wk == <<"k">>
Ws == <<"s">>
Wt == <<"t">>
WT == <<"T">>

\* Words the language dictionary knows by itself.
BaseDict == {Wk, Ws}

\* Words the caller passes to add_to_dictionary / add_to_exclusions.
DictWords == {Wt, Wk}

\* Word lists passed to add_to_dictionary and to add_to_exclusions.
AddLists == {{Wt}}
ExclusionLists == (SUBSET DictWords) \ {{}}

\* dictionary.suggest(word): the ranked suggestions of the dictionary
\* service; some words have none.
suggest(w) == IF w = Wt THEN <<Ws>> ELSE IF w = WT THEN <<Ws, Wk>> ELSE <<>>

\* ------------------------------------------------------------------ files
F1 == "d/a.py"
F2 == "d/b.py"
Dir == "d"
Files == {F1, F2}

\* What the environment writes to the first file.
ContentPool ==
  { <<"k", "\n">>,
    <<"t">>,
    <<"#", " ", "t", " ", "\n">>,
    <<"t", " ", "T", "\n">>,
    <<"1", "#", "t", ".", "\n">>,
    <<" ", "t", " ", "t", " ", "\n">>,
    <<" ", "k", " ", "T", " ", "\n">>,
    <<"#", " ", "t", " ", "t", " ", "\n">> }

Contents == {c \in ContentPool : Len(c) <= MaxLen}

\* What the environment writes to the second file of the directory.
SmallContents == { <<"k", "\n">>, <<"#", " ", "t", " ", "\n">> }

Undecodable == <<BadByte>>

Decodable(content) == \A i \in 1..Len(content) : content[i] # BadByte

VARIABLES
  target, match_identifier, suggestions, exclude_files, exclude_words,
  added, excluded,
  fs, target_present,
  typo_details, typo_list,
  lastOp, result, local, readLog, checkLog, writeLog, rt

cfgVars == <<target, match_identifier, suggestions, exclude_files, exclude_words>>
dictVars == <<added, excluded>>
fsVars == <<fs, target_present>>
ledgerVars == <<typo_details, typo_list>>
logVars == <<lastOp, result, local, readLog, checkLog, writeLog, rt>>
vars == <<cfgVars, dictVars, fsVars, ledgerVars, logVars>>

\* ---------------------------------------------------------------- helpers
Perms(S) == {p \in [1..Cardinality(S) -> S] : \A w \in S : \E i \in 1..Cardinality(S) : p[i] = w}

Range(s) == {s[i] : i \in 1..Len(s)}

\* content[pos ..] starts with pat.
StartsWithAt(content, pos, pat) ==
  /\ pos + Len(pat) - 1 <= Len(content)
  /\ \A j \in 1..Len(pat) : content[pos + j - 1] = pat[j]

\* Index of the first newline at or after pos, Len(content) + 1 when none.
RECURSIVE LineEnd(_, _)
LineEnd(content, pos) ==
  IF pos > Len(content) THEN Len(content) + 1
  ELSE IF content[pos] = NL THEN pos
  ELSE LineEnd(content, pos + 1)

\* re.findall(f'{match_identifier}(.+)\n', content): the groups of the
\* leftmost non-overlapping matches.  '.' matches anything but a newline, so
\* a match is the marker, at least one character of the same line, and the
\* newline that ends that line.
RECURSIVE findall(_, _, _)
findall(marker, content, pos) ==
  IF pos > Len(content) THEN <<>>
  ELSE LET from == pos + Len(marker)
           e == LineEnd(content, from)
       IN IF StartsWithAt(content, pos, marker) /\ e > from /\ e <= Len(content)
          THEN <<SubSeq(content, from, e - 1)>> \o findall(marker, content, e + 1)
          ELSE findall(marker, content, pos + 1)

\* str.split(): the maximal runs of non-whitespace characters.
RECURSIVE split(_, _, _)
split(s, pos, cur) ==
  IF pos > Len(s) THEN (IF cur = <<>> THEN <<>> ELSE <<cur>>)
  ELSE IF s[pos] \in Whitespace
       THEN (IF cur = <<>> THEN <<>> ELSE <<cur>>) \o split(s, pos + 1, <<>>)
       ELSE split(s, pos + 1, Append(cur, s[pos]))

\* str.strip(strip_str): drop the strip characters from both ends.
RECURSIVE lstrip(_)
lstrip(w) == IF w # <<>> /\ Head(w) \in strip_chars THEN lstrip(Tail(w)) ELSE w

RECURSIVE rstrip(_)
rstrip(w) ==
  IF w # <<>> /\ w[Len(w)] \in strip_chars THEN rstrip(SubSeq(w, 1, Len(w) - 1)) ELSE w

strip(w) == rstrip(lstrip(w))

\* str.isalpha(): non-empty and every character a letter.
isalpha(w) == w # <<>> /\ \A i \in 1..Len(w) : w[i] \in Letters

\* _match_from_file on a file's content: the set of candidate words.
_match_from_file(content) ==
  LET matches == findall(match_identifier, content, 1)
  IN { strip(word) : word \in { x \in UNION { Range(split(matches[i], 1, <<>>)) : i \in 1..Len(matches) } :
                                isalpha(strip(x)) } }

\* ------------------------------------------------------------- dictionary
\* self.dictionary.check(word).  The dictionary handle keeps a session /
\* personal word list (added) and an exclude list (excluded) beside the
\* language's own words; an excluded word is reported as unknown.
check_ignoring_exclude_list(word) == word \in added \/ word \in BaseDict

check(word) == word \notin excluded /\ (word \in added \/ word \in BaseDict)

file_excluded_never(file) == FALSE

\* find_typos, line 165: the file filter.
file_excluded(file) == file \in exclude_files

\* find_typos, line 167: the decision to record a word (short-circuit and).
is_typo(word) == word # <<>> /\ word \notin exclude_words /\ ~check(word)

\* find_typos, lines 169/171: the entry recorded for a word.
Entry(word) ==
  [word |-> word,
   suggestions |-> IF suggestions THEN suggest(word) ELSE <<>>,
   bare |-> ~suggestions]

\* ----------------------------------------------------------------- ledger
WordsOf(details) == UNION {{e.word : e \in Range(details[i].entries)} : i \in 1..Len(details)}

FilesOf(details) == {details[i].file : i \in 1..Len(details)}

EntriesFor(details, file) ==
  UNION {Range(details[i].entries) : i \in {n \in 1..Len(details) : details[n].file = file}}

\* key=str.casefold
casefold(w) == [i \in 1..Len(w) |-> casefold_char(w[i])]

\* Python's string order: a < b.
StrLess(a, b) ==
  \E i \in 1..(Len(a) + 1) :
    /\ \A j \in 1..(i - 1) : j <= Len(b) /\ a[j] = b[j]
    /\ IF i <= Len(a) THEN i <= Len(b) /\ ord(a[i]) < ord(b[i]) ELSE i <= Len(b)

\* sorted(...) without key=str.casefold: the words in code point order.
_get_typos_list_no_key(details) ==
  IF details = <<>> THEN {<<>>}
  ELSE {p \in Perms(WordsOf(details)) :
          \A i \in 1..Len(p), j \in 1..Len(p) : i < j => ~StrLess(p[j], p[i])}

\* _get_typos_list: every list sorted(list(set(flat)), key=str.casefold) may
\* return.  The set's iteration order is arbitrary and the sort is stable,
\* so words with equal keys come in any order.
_get_typos_list(details) ==
  IF details = <<>> THEN {<<>>}
  ELSE {p \in Perms(WordsOf(details)) :
          \A i \in 1..Len(p), j \in 1..Len(p) :
             i < j => ~StrLess(casefold(p[j]), casefold(p[i]))}

\* ------------------------------------------------------------- find_typos
\* _find_files: the lists it may return (glob's order is the file system's).
_find_files == IF target = Dir THEN Perms(Files) ELSE {<<target>>}

\* The words of a file that find_typos records.
TypoWords(file) == {w \in _match_from_file(fs[file]) : is_typo(w)}

\* list(set(...)) iterates in an arbitrary order: one order per file.
WordOrders ==
  {g \in [Files -> UNION {Perms(TypoWords(f)) : f \in Files}] :
     \A f \in Files : g[f] \in Perms(TypoWords(f))}

\* The loop of find_typos over files[i..], acc being the local typo_details,
\* the files read, the words the dictionary was asked about, and the
\* exception that ended the loop.
RECURSIVE ScanFrom(_, _, _, _)
ScanFrom(files, i, wordOrder, acc) ==
  IF i > Len(files) THEN acc
  ELSE LET file == files[i] IN
    IF file_excluded(file) THEN ScanFrom(files, i + 1, wordOrder, acc)
    ELSE IF ~Decodable(fs[file])
         THEN [acc EXCEPT !.raised = "UnicodeDecodeError", !.read = @ \cup {file}]
    ELSE LET found == [k \in 1..Len(wordOrder[file]) |-> Entry(wordOrder[file][k])]
         IN ScanFrom(files, i + 1, wordOrder,
              [acc EXCEPT
                 !.read = @ \cup {file},
                 !.checked = @ \cup {w \in _match_from_file(fs[file]) : w # <<>> /\ w \notin exclude_words},
                 !.details = IF found = <<>> THEN @ ELSE Append(@, [file |-> file, entries |-> found])])

\* The ledger assigned as the loop goes, not after it.
commit_as_found(details, raised) == IF details # <<>> THEN details ELSE typo_details

\* find_typos, lines 172-177: what self.typo_details is after the loop.
commit(details, raised) ==
  IF raised = "ok" /\ details # <<>> THEN details ELSE typo_details

\* Every occurrence of word in content has exactly one space on each side.
AllSpaced(content, word) ==
  \A i \in 1..Len(content) :
     StartsWithAt(content, i, word) =>
       /\ i > 1 /\ content[i - 1] = Space
       /\ (i > 2 => content[i - 2] # Space)
       /\ i + Len(word) <= Len(content) /\ content[i + Len(word)] = Space
       /\ (i + Len(word) + 1 <= Len(content) => content[i + Len(word) + 1] # Space)

NoRoundTrip == [phase |-> "none", pairs |-> {}]

find_typos ==
  /\ lastOp' = "find_typos"
  /\ writeLog' = {}
  /\ UNCHANGED <<cfgVars, dictVars, fsVars>>
  /\ IF ~target_present
     THEN /\ result' = "FileNotFoundError"
          /\ local' = <<>>
          /\ readLog' = {}
          /\ checkLog' = {}
          /\ rt' = NoRoundTrip
          /\ UNCHANGED ledgerVars
     ELSE \E files \in _find_files, wordOrder \in WordOrders :
          LET r == ScanFrom(files, 1, wordOrder,
                     [details |-> <<>>, raised |-> "ok", read |-> {}, checked |-> {}])
          IN /\ result' = r.raised
             /\ local' = r.details
             /\ readLog' = r.read
             /\ checkLog' = r.checked
             /\ typo_details' = commit(r.details, r.raised)
             /\ IF r.raised = "ok" /\ r.details # <<>>
                THEN typo_list' \in _get_typos_list(typo_details')
                ELSE typo_list' = typo_list
             /\ rt' = IF r.raised # "ok" THEN NoRoundTrip
                      ELSE IF rt.phase = "fixed" THEN [rt EXCEPT !.phase = "rescanned"]
                      ELSE [phase |-> "scanned",
                            pairs |-> {<<f, w>> \in Files \X WordsOf(r.details) :
                                         /\ \E e \in EntriesFor(r.details, f) : e.word = w
                                         /\ AllSpaced(fs[f], w)}]

\* -------------------------------------------------------------- fix_typos
\* str.replace(old, new): the non-overlapping occurrences, left to right.
RECURSIVE replace(_, _, _, _)
replace(content, old, new, pos) ==
  IF pos > Len(content) THEN <<>>
  ELSE IF StartsWithAt(content, pos, old)
       THEN new \o replace(content, old, new, pos + Len(old))
       ELSE <<content[pos]>> \o replace(content, old, new, pos + 1)

\* fix_typos, lines 196-198: the substitutions of one file, in ledger order.
\* A bare word has no items(); an empty suggestion list has no [0].
RECURSIVE apply_entries(_, _, _)
apply_entries(content, entries, i) ==
  IF i > Len(entries) THEN [content |-> content, raised |-> "ok"]
  ELSE IF entries[i].bare THEN [content |-> content, raised |-> "AttributeError"]
  ELSE IF entries[i].suggestions = <<>> THEN [content |-> content, raised |-> "IndexError"]
  ELSE apply_entries(
         replace(content, <<Space>> \o entries[i].word \o <<Space>>,
                 <<Space>> \o entries[i].suggestions[1] \o <<Space>>, 1),
         entries, i + 1)

\* f.write reached on every path out of the with block.
written_on_every_path(original, out) == out.content

\* fix_typos, lines 193-200: what the file holds when the with block ends;
\* f.write is reached only when no substitution raised.
written(original, out) == IF out.raised = "ok" THEN out.content ELSE original

\* The loop of fix_typos over typo_details[i..].
RECURSIVE fix_files(_, _, _)
fix_files(fsys, i, opened) ==
  IF i > Len(typo_details) THEN [fs |-> fsys, raised |-> "ok", opened |-> opened]
  ELSE LET file == typo_details[i].file IN
    IF ~target_present THEN [fs |-> fsys, raised |-> "FileNotFoundError", opened |-> opened]
    ELSE IF ~Decodable(fsys[file])
         THEN [fs |-> fsys, raised |-> "UnicodeDecodeError", opened |-> opened \cup {file}]
    ELSE LET out == apply_entries(fsys[file], typo_details[i].entries, 1)
             nfs == [fsys EXCEPT ![file] = written(fsys[file], out)]
         IN IF out.raised = "ok"
            THEN fix_files(nfs, i + 1, opened \cup {file})
            ELSE [fs |-> nfs, raised |-> out.raised, opened |-> opened \cup {file}]

suggestions_never_missing == FALSE

\* fix_typos, line 186.
suggestions_missing == ~suggestions

fix_typos ==
  /\ lastOp' = "fix_typos"
  /\ local' = <<>>
  /\ readLog' = {}
  /\ checkLog' = {}
  /\ UNCHANGED <<cfgVars, dictVars, ledgerVars, target_present>>
  /\ IF suggestions_missing
     THEN /\ result' = "SuggestionsNotFound"
          /\ writeLog' = {}
          /\ rt' = NoRoundTrip
          /\ UNCHANGED fs
     ELSE IF typo_details = <<>>
     THEN /\ result' = "ok"
          /\ writeLog' = {}
          /\ rt' = NoRoundTrip
          /\ UNCHANGED fs
     ELSE LET r == fix_files(fs, 1, {})
          IN /\ result' = r.raised
             /\ writeLog' = r.opened
             /\ fs' = r.fs
             /\ rt' = IF r.raised = "ok" /\ rt.phase = "scanned"
                      THEN [rt EXCEPT !.phase = "fixed"] ELSE NoRoundTrip

\* ------------------------------------------------- dictionary operations
ResetLog(op) ==
  /\ lastOp' = op
  /\ result' = "ok"
  /\ local' = <<>>
  /\ readLog' = {}
  /\ checkLog' = {}
  /\ writeLog' = {}
  /\ rt' = NoRoundTrip

\* add_to_dictionary: dictionary.add / add_to_session for each word.
add_to_dictionary(word_list) ==
  /\ added' = added \cup word_list
  /\ excluded' = excluded \ word_list
  /\ ResetLog("add_to_dictionary")
  /\ UNCHANGED <<cfgVars, fsVars, ledgerVars>>

\* add_to_exclusions: dictionary.remove for each word.
add_to_exclusions(word_list) ==
  /\ excluded' = excluded \cup word_list
  /\ added' = added \ word_list
  /\ ResetLog("add_to_exclusions")
  /\ UNCHANGED <<cfgVars, fsVars, ledgerVars>>

\* ------------------------------------------------------------ environment
\* Between calls the files change on disk.
WriteFile(file, content) ==
  /\ file = target \/ target = Dir
  /\ fs[file] # content
  /\ fs' = [fs EXCEPT ![file] = content]
  /\ ResetLog("env")
  /\ UNCHANGED <<cfgVars, dictVars, ledgerVars, target_present>>

RemoveTarget ==
  /\ target_present
  /\ target_present' = FALSE
  /\ ResetLog("env")
  /\ UNCHANGED <<cfgVars, dictVars, ledgerVars, fs>>

RestoreTarget ==
  /\ ~target_present
  /\ target_present' = TRUE
  /\ ResetLog("env")
  /\ UNCHANGED <<cfgVars, dictVars, ledgerVars, fs>>

\* ---------------------------------------------------------- specification
\* __init__: the configuration, an empty ledger, a fresh dictionary handle.
Init ==
  /\ target \in {F1, Dir}
  /\ match_identifier \in {<<>>, <<"#">>}
  /\ suggestions \in BOOLEAN
  /\ \E exclusions \in BOOLEAN :
       /\ exclude_files = IF exclusions THEN {F2} ELSE {}
       /\ exclude_words = IF exclusions THEN {WT, Wk} ELSE {}
  /\ added = {}
  /\ excluded = {}
  /\ fs = [f \in Files |-> <<"k", "\n">>]
  /\ target_present = TRUE
  /\ typo_list = <<>>
  /\ typo_details = <<>>
  /\ lastOp = "init"
  /\ result = "ok"
  /\ local = <<>>
  /\ readLog = {}
  /\ checkLog = {}
  /\ writeLog = {}
  /\ rt = NoRoundTrip

Next ==
  \/ find_typos
  \/ fix_typos
  \/ \E word_list \in AddLists : add_to_dictionary(word_list)
  \/ \E word_list \in ExclusionLists : add_to_exclusions(word_list)
  \/ \E content \in Contents \cup {Undecodable} : WriteFile(F1, content)
  \/ \E content \in SmallContents \cup {Undecodable} : WriteFile(F2, content)
  \/ RemoveTarget
  \/ RestoreTarget

Spec == Init /\ [][Next]_vars

\* ----------------------------------------------------------------- claims
Completed(op) == lastOp = op /\ result = "ok"

Records(details, file, word) == \E e \in EntriesFor(details, file) : e.word = word

Contains(content, pat) == \E i \in 1..Len(content) : StartsWithAt(content, i, pat)

Spaced(word) == <<Space>> \o word \o <<Space>>

\* C1: after every find_typos() that completes, typo_details is exactly what
\* that scan recorded (local): prior ledger contents are replaced, so a file
\* is a key iff the scan recorded a typo for it.
C1_LedgerIsLatestScan == Completed("find_typos") => typo_details = local

C3_ExcludedNeverReported ==
  Completed("find_typos") => \A w \in excluded : w \notin WordsOf(local)

\* C3 (as amended): a word passed to add_to_exclusions() and not added back
\* is unknown to the dictionary, and a find_typos() that completes records it
\* for every file it read whose matched regions hold the word, unless the
\* word is in exclude_words.
C3_ExcludedIsReported ==
  Completed("find_typos") =>
    \A w \in excluded :
       /\ ~check(w)
       /\ \A f \in readLog :
             w \in _match_from_file(fs[f]) =>
               (Records(typo_details, f, w) <=> w \notin exclude_words)

\* C3 witness: a scan recorded a word the dictionary knew until it was
\* passed to add_to_exclusions().
C3_Witness ==
  /\ Completed("find_typos")
  /\ Wk \in excluded
  /\ Wk \in BaseDict
  /\ \E f \in readLog : Records(typo_details, f, Wk)

\* C4: no word of exclude_words is an entry of typo_details, no file of
\* exclude_files is a key of it, no excluded file is read for extraction and
\* the dictionary is asked about no excluded word.
C4_ExclusionsHonoured ==
  /\ FilesOf(typo_details) \cap exclude_files = {}
  /\ WordsOf(typo_details) \cap exclude_words = {}
  /\ readLog \cap exclude_files = {}
  /\ checkLog \cap exclude_words = {}

\* C4 witness: a directory scan recorded typos while an excluded file held
\* an unknown word and a scanned file held an excluded word.
C4_Witness ==
  /\ Completed("find_typos")
  /\ target = Dir
  /\ F2 \in exclude_files
  /\ \E w \in _match_from_file(fs[F2]) : ~check(w)
  /\ \E w \in _match_from_file(fs[F1]) : w \in exclude_words /\ ~check(w)
  /\ typo_details # <<>>
  /\ typo_details = local

\* C5: with suggestions disabled every fix_typos() fails with
\* SuggestionsNotFound, opens no file, changes no file and leaves the ledger
\* as it was.
C5_FixNeedsSuggestions ==
  [][(lastOp' = "fix_typos" /\ ~suggestions) =>
       /\ result' = "SuggestionsNotFound"
       /\ writeLog' = {}
       /\ fs' = fs
       /\ typo_details' = typo_details
       /\ typo_list' = typo_list]_vars

\* C5 witness: fix_typos() failed on a session without suggestions whose
\* ledger holds typos.
C5_Witness ==
  /\ lastOp = "fix_typos"
  /\ ~suggestions
  /\ result = "SuggestionsNotFound"
  /\ typo_details # <<>>

\* C6: after find_typos(), fix_typos(), find_typos() with nothing in between,
\* a typo the first scan recorded for a file, all of whose occurrences in
\* that file had exactly one space on each side, is not reported for that
\* file any more.
C6_RoundTrip ==
  rt.phase = "rescanned" =>
    \A pair \in rt.pairs : ~Records(typo_details, pair[1], pair[2])

\* The substitution C7 describes: every occurrence of a recorded typo that
\* has a space on each side becomes the first suggestion, the rest is kept.
RECURSIVE ReplaceEverySpaced(_, _, _)
ReplaceEverySpaced(content, entries, pos) ==
  IF pos > Len(content) THEN <<>>
  ELSE LET hit == {e \in Range(entries) :
                     /\ pos > 1 /\ content[pos - 1] = Space
                     /\ StartsWithAt(content, pos, e.word \o <<Space>>)}
       IN IF hit # {}
          THEN LET e == CHOOSE x \in hit : TRUE
               IN e.suggestions[1] \o ReplaceEverySpaced(content, entries, pos + Len(e.word))
          ELSE <<content[pos]>> \o ReplaceEverySpaced(content, entries, pos + 1)

\* C7: a fix_typos() that completes with suggestions enabled and a non-empty
\* ledger leaves in every file of the ledger the content with every spaced
\* occurrence of every recorded typo replaced by its first suggestion.
C7_EverySpacedOccurrenceReplaced ==
  [][(lastOp' = "fix_typos" /\ result' = "ok" /\ suggestions /\ typo_details # <<>>) =>
       \A i \in 1..Len(typo_details) :
          fs'[typo_details[i].file] =
            ReplaceEverySpaced(fs[typo_details[i].file], typo_details[i].entries, 1)]_vars

\* The candidates of the whole content: its whitespace-separated tokens,
\* stripped, that are non-empty and alphabetic.
WholeContentCandidates(content) ==
  {strip(x) : x \in {y \in Range(split(content, 1, <<>>)) : isalpha(strip(y))}}

\* C8: with an empty match_identifier the candidates extracted from a file
\* are the candidates of its whole content.
C8_EmptyMarkerMatchesEverything ==
  (Completed("find_typos") /\ match_identifier = <<>>) =>
    \A f \in readLog : _match_from_file(fs[f]) = WholeContentCandidates(fs[f])

\* C9: a find_typos() that raises leaves typo_details and typo_list as they
\* were before the call.
C9_FailedScanKeepsLedger ==
  [][(lastOp' = "find_typos" /\ result' # "ok") =>
       /\ typo_details' = typo_details
       /\ typo_list' = typo_list]_vars

\* C9 witness: a scan failed on an unreadable file after it had found typos
\* in another file, and the ledger still holds an earlier, different scan.
C9_Witness ==
  /\ lastOp = "find_typos"
  /\ result = "UnicodeDecodeError"
  /\ local # <<>>
  /\ typo_details # <<>>
  /\ typo_details # local

HasEmptySuggestions(entries) == \E e \in Range(entries) : e.suggestions = <<>>

\* C10: fix_typos() leaves every file of the ledger either as it was or with
\* all its substitutions made; when a recorded typo has no suggestion and
\* the files before it are fixed without error, it raises IndexError, that
\* file and the later ones are unchanged, the earlier ones are rewritten,
\* and the ledger is unchanged.
C10_FixWritesWholeFilesOnly ==
  [][(lastOp' = "fix_typos" /\ suggestions /\ typo_details # <<>>) =>
       LET n == Len(typo_details)
           file(i) == typo_details[i].file
           entries(i) == typo_details[i].entries
           fixed(i) == apply_entries(fs[file(i)], entries(i), 1).content
           clean(i) == target_present /\ Decodable(fs[file(i)])
                         /\ ~HasEmptySuggestions(entries(i))
       IN /\ typo_details' = typo_details
          /\ typo_list' = typo_list
          /\ \A f \in Files \ FilesOf(typo_details) : fs'[f] = fs[f]
          /\ \A i \in 1..n :
                \/ fs'[file(i)] = fs[file(i)]
                \/ ~HasEmptySuggestions(entries(i)) /\ fs'[file(i)] = fixed(i)
          /\ \A i \in 1..n :
                ( /\ HasEmptySuggestions(entries(i))
                  /\ target_present /\ Decodable(fs[file(i)])
                  /\ \A j \in 1..(i - 1) : clean(j) ) =>
                  /\ result' = "IndexError"
                  /\ \A j \in i..n : fs'[file(j)] = fs[file(j)]
                  /\ \A j \in 1..(i - 1) : fs'[file(j)] = fixed(j)]_vars

\* C10 witness: fix_typos() rewrote the first file of the ledger and raised
\* IndexError on the second, after a substitution had been computed for it:
\* the typo of that substitution is still in the file.
C10_Witness ==
  /\ lastOp = "fix_typos"
  /\ result = "IndexError"
  /\ Len(typo_details) = 2
  /\ writeLog = Files
  /\ LET entries == typo_details[2].entries
     IN /\ Len(entries) = 2
        /\ entries[1].suggestions # <<>>
        /\ entries[2].suggestions = <<>>
        /\ Contains(fs[typo_details[2].file], Spaced(entries[1].word))
  /\ \A e \in Range(typo_details[1].entries) :
        /\ e.suggestions # <<>>
        /\ ~Contains(fs[typo_details[1].file], Spaced(e.word))

====
